---- MODULE Spec2Model ----
(***************************************************************************)
(* Hospital waiting-list application: the database tables hospitals and    *)
(* waiting_lists with their row-level-security policies and trigger, the   *)
(* Dashboard page (fetchHospitalData, createHospital, updateWaitingCount), *)
(* the ScanQueue self-check-in page (incrementWaitingList) and the public  *)
(* Index listing (getUserLocation, fetchHospitals, filteredHospitals).     *)
(***************************************************************************)
EXTENDS Integers, Sequences, FiniteSets, Bags, TLC

(* ------------------------------ bounds -------------------------------- *)
MaxHospitals == 2
MaxRows == 2
MaxCount == 2
MaxTime == 1
MaxPending == 2
MaxGeo == 2

\* The registered accounts (auth.users).
Users == {1, 2}
\* auth.uid() of a request without a session is NULL; 0 stands for it.
Anon == 0
Actors == Users \cup {Anon}
HospitalIds == 1..MaxHospitals
RowIds == 1..MaxRows
Dashboards == {"d1", "d2"}
Pages == {"p1", "p2"}

\* A nullable column or a nullable piece of React state: <<>> is null.
None == <<>>
Some(v) == <<v>>

Max(a, b) == IF a >= b THEN a ELSE b

VARIABLES
  hospitals,      \* table public.hospitals: a set of rows
  waiting_lists,  \* table public.waiting_lists: a set of rows
  nextHospitalId, \* gen_random_uuid() for hospitals.id: ids are never reused
  nextRowId,      \* gen_random_uuid() for waiting_lists.id
  now,            \* the wall clock read by new Date() and now()
  dash,           \* per Dashboard page: its React state and position
  pending,        \* per Dashboard page: updateWaitingCount calls awaiting their response
  page,           \* per ScanQueue page load: its React state and position
  lastActor,      \* auth.uid() of the request that made the last table write
  otherWriters,   \* ids of the hospitals whose count something other than a check-in wrote
  index,          \* the Index (listing) page: its React state and pending callbacks
  calc,           \* two points and the distances computed between them so far
  auth            \* the Auth (sign-in) page: its React state and position

vars == <<hospitals, waiting_lists, nextHospitalId, nextRowId, now, dash,
          pending, page, lastActor, otherWriters, index, calc,
          auth>>

dbVars == <<hospitals, waiting_lists, nextHospitalId, nextRowId, lastActor, otherWriters>>

(* --------------------------- the database ----------------------------- *)

\* waiting_lists row created by the trigger for a new hospital.
NewWaitingList(id, hospitalId) ==
  [id |-> id, hospital_id |-> hospitalId, waiting_count |-> 0, last_updated |-> now]

\* Policy "Authenticated users can create hospitals": TO authenticated
\* WITH CHECK (auth.uid() = user_id).
HospitalInsertCheck(actor, row) == actor # Anon /\ actor = row.user_id

\* Policy "Anyone can update waiting lists": FOR UPDATE USING (true).
WaitingListUpdateUsing(actor, row) == TRUE

\* An update policy as open as the one on waiting_lists.
HospitalUpdateAnyone(actor, row) == TRUE

\* Policy "Users can update their own hospitals": TO authenticated
\* USING (auth.uid() = user_id); with no WITH CHECK the new row is held to the same.
HospitalUpdateUsing(actor, row) == actor # Anon /\ actor = row.user_id

\* Policy "Users can delete their own hospitals": TO authenticated
\* USING (auth.uid() = user_id).
HospitalDeleteUsing(actor, row) == actor # Anon /\ actor = row.user_id

\* Policy "Authenticated users can insert waiting lists": TO authenticated
\* WITH CHECK (true).
WaitingListInsertCheck(actor, row) == actor # Anon

\* waiting_lists has no DELETE policy: under row-level security no row is visible
\* to a DELETE.
WaitingListDeleteUsing(actor, row) == FALSE

\* hospital_id REFERENCES hospitals(id).
ForeignKeyOk(hospitalId) == \E h \in hospitals : h.id = hospitalId

\* A foreign key that leaves the rows of a deleted hospital behind.
NoCascade(h) == {}

\* hospital_id ... ON DELETE CASCADE: the waiting_lists rows that go with hospital h.
Cascade(h) == {w \in waiting_lists : w.hospital_id = h.id}

\* INSERT INTO hospitals by `actor`, with the AFTER INSERT trigger
\* create_waiting_list_for_hospital run in the same statement.
InsertHospital(actor, fields) ==
  LET row == [id |-> nextHospitalId] @@ fields IN
  /\ HospitalInsertCheck(actor, row)
  /\ hospitals' = hospitals \cup {row}
  /\ waiting_lists' = waiting_lists \cup {NewWaitingList(nextRowId, row.id)}
  /\ nextHospitalId' = nextHospitalId + 1
  /\ nextRowId' = nextRowId + 1
  /\ lastActor' = actor
  /\ UNCHANGED otherWriters

\* The rows an UPDATE ... WHERE hospital_id = hid by `actor` touches.
UpdateTargets(actor, hid) ==
  {w \in waiting_lists : w.hospital_id = hid /\ WaitingListUpdateUsing(actor, w)}

\* The payload of the dashboard's and the check-in's update call.
CountPayload(count, ts) == [waiting_count |-> count, last_updated |-> ts]

\* An update that adds one to the stored count instead of storing the payload's.
ApplyIncrement(w, payload) ==
  [id |-> w.id, hospital_id |-> w.hospital_id,
   waiting_count |-> w.waiting_count + 1, last_updated |-> payload.last_updated]

\* An update whose payload carries no last_updated.
ApplyCountOnly(w, payload) ==
  [id |-> w.id, hospital_id |-> w.hospital_id,
   waiting_count |-> payload.waiting_count, last_updated |-> w.last_updated]

\* update({waiting_count, last_updated}): the columns of the payload replace the row's.
ApplyPayload(w, payload) ==
  [id |-> w.id, hospital_id |-> w.hospital_id,
   waiting_count |-> payload.waiting_count, last_updated |-> payload.last_updated]

\* UPDATE waiting_lists SET <payload> WHERE hospital_id = hid, by `actor`.
UpdateWaitingLists(actor, kind, hid, payload) ==
  LET hit == UpdateTargets(actor, hid) IN
  /\ waiting_lists' = (waiting_lists \ hit) \cup {ApplyPayload(w, payload) : w \in hit}
  /\ lastActor' = actor
  /\ otherWriters' = IF hit = {} \/ kind = "checkin" THEN otherWriters
                     ELSE otherWriters \cup {hid}
  /\ UNCHANGED <<hospitals, nextHospitalId, nextRowId>>

(* ------------------------- ScanQueue (check-in) ------------------------ *)

\* A null waitingList / waitingData in a page's state.
NullWaitingList == [id |-> 0, hospital_id |-> 0, waiting_count |-> 0, last_updated |-> 0]

\* updates: the waiting_lists update requests this page load has sent.
InitPage ==
  [pc |-> "idle", hospitalId |-> 0, loading |-> TRUE, success |-> FALSE,
   hospitalName |-> "", newCount |-> 0, waitingList |-> NullWaitingList,
   updates |-> 0]

\* waiting_count the check-in writes: the count it read, plus one.
CheckinCount(read) == read.waiting_count + 1

\* The ScanQueue page is mounted with the :hospitalId route parameter (0: absent).
PageLoad(p, hid) ==
  /\ page[p].pc = "idle"
  /\ page' = [page EXCEPT ![p].hospitalId = hid,
                          ![p].pc = IF hid = 0 THEN "returned" ELSE "hospital"]
  /\ UNCHANGED <<dbVars, now, auth, calc, dash, pending, index>>

\* The same browser tab opens a check-in link again: a fresh mount of the page.
PageReload(p, hid) ==
  /\ page[p].pc \in {"returned", "done"}
  /\ page' = [page EXCEPT ![p] = [InitPage EXCEPT !.hospitalId = hid,
                                   !.pc = IF hid = 0 THEN "returned" ELSE "hospital"]]
  /\ UNCHANGED <<dbVars, now, auth, calc, dash, pending, index>>

\* select name from hospitals where id = hospitalId, .single()
PageHospital(p, netOk) ==
  LET rows == {h \in hospitals : h.id = page[p].hospitalId} IN
  /\ page[p].pc = "hospital"
  /\ IF netOk /\ Cardinality(rows) = 1
       THEN page' = [page EXCEPT ![p].hospitalName = (CHOOSE h \in rows : TRUE).name,
                                 ![p].pc = "waiting"]
       ELSE page' = [page EXCEPT ![p].loading = FALSE, ![p].pc = "done"]
  /\ UNCHANGED <<dbVars, now, auth, calc, dash, pending, index>>

\* select * from waiting_lists where hospital_id = hospitalId, .single()
PageWaiting(p, netOk) ==
  LET rows == {w \in waiting_lists : w.hospital_id = page[p].hospitalId} IN
  /\ page[p].pc = "waiting"
  /\ IF netOk /\ Cardinality(rows) = 1
       THEN page' = [page EXCEPT ![p].waitingList = CHOOSE w \in rows : TRUE,
                                 ![p].pc = "update"]
       ELSE page' = [page EXCEPT ![p].loading = FALSE, ![p].pc = "done"]
  /\ UNCHANGED <<dbVars, now, auth, calc, dash, pending, index>>

\* A page that sends the update again after an error.
PageUpdateRetry(ps) == [ps EXCEPT !.updates = @ + 1]

\* The update returned an error: setLoading(false) alone.
PageUpdateFailed(ps) ==
  [ps EXCEPT !.updates = @ + 1, !.loading = FALSE, !.pc = "done"]

\* update waiting_lists set waiting_count = read + 1, last_updated = now
\* where hospital_id = hospitalId; then the success state.
PageUpdate(p, netOk) ==
  LET n == CheckinCount(page[p].waitingList) IN
  /\ page[p].pc = "update"
  /\ n <= MaxCount
  /\ IF netOk
       THEN /\ UpdateWaitingLists(Anon, "checkin", page[p].hospitalId, CountPayload(n, now))
            /\ page' = [page EXCEPT ![p].newCount = n, ![p].success = TRUE,
                                    ![p].updates = @ + 1,
                                    ![p].loading = FALSE, ![p].pc = "done"]
       ELSE /\ page' = [page EXCEPT ![p] = PageUpdateFailed(page[p])]
            /\ UNCHANGED dbVars
  /\ UNCHANGED <<now, auth, calc, dash, pending, index>>


(* ------------------------------ Dashboard ------------------------------ *)

\* What the last toast({title, description}) call of the page showed.
Toast(title, description) == [title |-> title, description |-> description]

NoToast == Toast("", <<>>)

\* locationMode, autoLocation: the registration form's location choice. geoPending:
\* getCurrentPosition calls whose callback has not run yet. navigated:
\* navigate("/auth") was called, the page is left. fetchUser: the userId argument of
\* the fetchHospitalData call under way. observed: the users whose session
\* getSession or onAuthStateChange has handed to the page.
InitDash ==
  [pc |-> "unloaded", user |-> Anon, hospital |-> 0, waitingList |-> NullWaitingList,
   isCreating |-> FALSE, loading |-> TRUE, hospitalData |-> 0, toast |-> NoToast,
   locationMode |-> "auto", autoLocation |-> None, geoPending |-> 0,
   navigated |-> FALSE, fetchUser |-> Anon, observed |-> {}]

\* The position navigator.geolocation reports for the registering hospital.
AutoLocation == [latitude |-> 10, longitude |-> 20]

\* hospitalForm, locationMode and autoLocation as createHospital finds them.
Form(name, address, pincode, locationMode, autoLocation) ==
  [name |-> name, address |-> address, pincode |-> pincode,
   locationMode |-> locationMode, autoLocation |-> autoLocation]

PincodeForm == Form("A", "S", "P", "pincode", None)

Forms ==
  {Form("A", "S", "", "auto", Some(AutoLocation)),
   PincodeForm,
   Form("", "S", "P", "pincode", None),
   Form("A", "", "P", "pincode", None),
   Form("A", "S", "P", "auto", None),
   Form("A", "S", "", "pincode", Some(AutoLocation))}

\* The change applied with the wrong sign and no floor.
DashNewCountUnclamped(waitingList, change) == waitingList.waiting_count - change

\* newCount of updateWaitingCount: computed from the page's own copy of the entry.
DashNewCount(waitingList, change) == Max(0, waitingList.waiting_count + change)

\* checkAuth: getSession(), then navigate("/auth") or setUser and fetchHospitalData.
DashCheckAuth(d, session) ==
  /\ dash[d].pc = "unloaded"
  /\ dash' = IF session = Anon
               THEN [dash EXCEPT ![d].navigated = TRUE, ![d].pc = "gone"]
               ELSE [dash EXCEPT ![d].user = session, ![d].fetchUser = session,
                                 ![d].observed = @ \cup {session},
                                 ![d].pc = "fetchHospital"]
  /\ UNCHANGED <<dbVars, now, auth, calc, pending, page, index>>

\* An onAuthStateChange callback that stores whatever it is handed.
DashAuthStateStored(d, session) ==
  /\ ~dash[d].navigated
  /\ dash' = [dash EXCEPT ![d].user = session]
  /\ UNCHANGED <<dbVars, now, auth, calc, pending, page, index>>

\* The onAuthStateChange callback: navigate("/auth") without a session, setUser
\* with one. The subscription lasts from the mount to the unmount.
DashAuthStateChange(d, session) ==
  /\ ~dash[d].navigated
  /\ dash' = IF session = Anon
               THEN [dash EXCEPT ![d].navigated = TRUE]
               ELSE [dash EXCEPT ![d].user = session,
                                 ![d].observed = @ \cup {session}]
  /\ UNCHANGED <<dbVars, now, auth, calc, pending, page, index>>

\* fetchHospitalData, first query: hospitals where user_id = userId, .maybeSingle()
DashFetchHospital(d, netOk) ==
  LET rows == {h \in hospitals : h.user_id = dash[d].fetchUser} IN
  /\ dash[d].pc = "fetchHospital"
  /\ IF ~netOk \/ Cardinality(rows) > 1
       THEN dash' = [dash EXCEPT ![d].pc = "idle", ![d].loading = FALSE]
       ELSE IF rows = {}
         THEN dash' = [dash EXCEPT ![d].isCreating = TRUE, ![d].pc = "idle",
                                   ![d].loading = FALSE]
         ELSE LET h == CHOOSE r \in rows : TRUE IN
              dash' = [dash EXCEPT ![d].hospital = h.id, ![d].hospitalData = h.id,
                                   ![d].pc = "fetchWaiting"]
  /\ UNCHANGED <<dbVars, now, auth, calc, pending, page, index>>

\* fetchHospitalData, second query: waiting_lists where hospital_id = hospitalData.id,
\* .maybeSingle()
DashFetchWaiting(d, netOk) ==
  LET rows == {w \in waiting_lists : w.hospital_id = dash[d].hospitalData} IN
  /\ dash[d].pc = "fetchWaiting"
  /\ IF ~netOk \/ Cardinality(rows) > 1
       THEN dash' = [dash EXCEPT ![d].pc = "idle", ![d].loading = FALSE]
       ELSE dash' = [dash EXCEPT
                       ![d].waitingList = IF rows = {} THEN NullWaitingList
                                          ELSE CHOOSE w \in rows : TRUE,
                       ![d].pc = "idle", ![d].loading = FALSE]
  /\ UNCHANGED <<dbVars, now, auth, calc, pending, page, index>>

\* A row that carries the detected location whatever the mode is.
HospitalFieldsAnyMode(user, form) ==
  LET auto == form.autoLocation # None IN
  [user_id |-> user, name |-> form.name, address |-> form.address,
   pincode |-> IF form.pincode = "" THEN None ELSE Some(form.pincode),
   latitude |-> IF auto THEN Some(form.autoLocation[1].latitude) ELSE None,
   longitude |-> IF auto THEN Some(form.autoLocation[1].longitude) ELSE None]

\* The row createHospital inserts for a form that passed its three checks.
HospitalFields(user, form) ==
  LET auto == form.locationMode = "auto" /\ form.autoLocation # None IN
  [user_id |-> user, name |-> form.name, address |-> form.address,
   pincode |-> IF form.pincode = "" THEN None ELSE Some(form.pincode),
   latitude |-> IF auto THEN Some(form.autoLocation[1].latitude) ELSE None,
   longitude |-> IF auto THEN Some(form.autoLocation[1].longitude) ELSE None]

FormRejected(user, form) ==
  \/ user = Anon \/ form.name = "" \/ form.address = ""
  \/ form.locationMode = "auto" /\ form.autoLocation = None
  \/ form.locationMode = "pincode" /\ form.pincode = ""

\* The toast of the first of createHospital's three checks that fails.
FormError(user, form) ==
  IF user = Anon \/ form.name = "" \/ form.address = ""
    THEN Toast("Error", <<"Please fill in all required fields">>)
    ELSE IF form.locationMode = "auto" /\ form.autoLocation = None
      THEN Toast("Error", <<"Please allow location access or switch to pincode mode">>)
      ELSE Toast("Error", <<"Please enter your pincode">>)

\* createHospital: the form's checks, the insert, then setHospital,
\* setIsCreating(false) and fetchHospitalData again.
DashCreateHospital(d, form, netOk) ==
  /\ dash[d].pc = "idle" /\ ~dash[d].loading /\ dash[d].isCreating
  /\ ~dash[d].navigated
  /\ nextHospitalId <= MaxHospitals /\ nextRowId <= MaxRows
  /\ IF FormRejected(dash[d].user, form)
       THEN /\ dash' = [dash EXCEPT ![d].toast = FormError(dash[d].user, form)]
            /\ UNCHANGED dbVars
       ELSE IF ~netOk
         THEN /\ dash' = [dash EXCEPT ![d].toast =
                           Toast("Error", <<"Failed to create hospital profile">>)]
              /\ UNCHANGED dbVars
         ELSE /\ InsertHospital(dash[d].user, HospitalFields(dash[d].user, form))
              /\ dash' = [dash EXCEPT ![d].hospital = nextHospitalId,
                                      ![d].isCreating = FALSE,
                                      ![d].fetchUser = dash[d].user,
                                      ![d].pc = "fetchHospital",
                                      ![d].toast =
                             Toast("Success", <<"Hospital profile created successfully">>)]
  /\ UNCHANGED <<now, auth, calc, pending, page, index>>

\* updateWaitingCount(change) up to its await: newCount from the local entry, and
\* the update of every waiting_lists row of hospital.id. The Remove button is
\* disabled while the local count is <= 0. A failed update runs the error branch.
\* The pending response keeps what setWaitingList will use of the captured entry:
\* the spread fields it does not overwrite.
\* Positions the browser may report to the registration form.
DashPositions == {AutoLocation, [latitude |-> 0, longitude |-> 0]}

\* The registration form is on screen.
FormShown(d) ==
  dash[d].pc = "idle" /\ ~dash[d].loading /\ dash[d].isCreating /\ ~dash[d].navigated

\* The "Auto-detect Location" button: setLocationMode("auto"), then
\* getAutomaticLocation, which asks for the position or, without geolocation in
\* navigator, sets the mode to "pincode". locationStatus is display text only.
DashClickAuto(d, supported) ==
  /\ FormShown(d)
  /\ supported => dash[d].geoPending < MaxGeo
  /\ dash' = [dash EXCEPT ![d].locationMode = IF supported THEN "auto" ELSE "pincode",
                          ![d].geoPending = IF supported THEN @ + 1 ELSE @]
  /\ UNCHANGED <<dbVars, now, auth, calc, pending, page, index>>

\* The "Pincode" button: setLocationMode("pincode").
DashClickPincode(d) ==
  /\ FormShown(d)
  /\ dash' = [dash EXCEPT ![d].locationMode = "pincode"]
  /\ UNCHANGED <<dbVars, now, auth, calc, pending, page, index>>

\* getCurrentPosition's success callback of getAutomaticLocation.
DashLocationFound(d, position) ==
  /\ dash[d].geoPending > 0
  /\ dash' = [dash EXCEPT ![d].autoLocation = Some(position),
                          ![d].geoPending = @ - 1,
                          ![d].toast = Toast("Location Detected",
                            <<"Your hospital location has been automatically detected">>)]
  /\ UNCHANGED <<dbVars, now, auth, calc, pending, page, index>>

\* getCurrentPosition's error callback of getAutomaticLocation.
DashLocationError(d) ==
  /\ dash[d].geoPending > 0
  /\ dash' = [dash EXCEPT ![d].locationMode = "pincode",
                          ![d].geoPending = @ - 1,
                          ![d].toast = Toast("Location Error",
                            <<"Please enable location access or use pincode">>)]
  /\ UNCHANGED <<dbVars, now, auth, calc, pending, page, index>>

\* The "Create Hospital Profile" button: createHospital with the typed fields and
\* the page's own locationMode and autoLocation.
DashSubmit(d, name, address, pincode, netOk) ==
  DashCreateHospital(d, Form(name, address, pincode, dash[d].locationMode,
                             dash[d].autoLocation), netOk)

\* An error branch that shows the count the page asked for all the same.
DashUpdateFailedOptimistic(ds) ==
  [ds EXCEPT !.waitingList.waiting_count = @ + 1,
             !.toast = Toast("Error", <<"Failed to update waiting count">>)]

\* The error branch of updateWaitingCount: a toast and console.error.
DashUpdateFailed(ds) ==
  [ds EXCEPT !.toast = Toast("Error", <<"Failed to update waiting count">>)]

DashUpdateWaitingCount(d, change, netOk) ==
  LET wl == dash[d].waitingList
      newCount == DashNewCount(wl, change) IN
  /\ dash[d].pc \in {"idle", "fetchHospital", "fetchWaiting"}
  /\ ~dash[d].loading /\ ~dash[d].isCreating /\ ~dash[d].navigated
  /\ wl # NullWaitingList /\ dash[d].hospital # 0
  /\ change = -1 => wl.waiting_count > 0
  /\ newCount <= MaxCount
  /\ BagCardinality(pending[d]) < MaxPending
  /\ IF netOk
       THEN /\ UpdateWaitingLists(dash[d].user, "dashboard", dash[d].hospital,
                                  CountPayload(newCount, now))
            /\ pending' = [pending EXCEPT ![d] =
                 @ (+) SetToBag({[newCount |-> newCount, id |-> wl.id,
                                  hospital_id |-> wl.hospital_id]})]
            /\ UNCHANGED dash
       ELSE /\ dash' = [dash EXCEPT ![d] = DashUpdateFailed(dash[d])]
            /\ UNCHANGED <<dbVars, pending>>
  /\ UNCHANGED <<now, auth, calc, page, index>>

\* updateWaitingCount after its await, without error: setWaitingList with the
\* entry captured at the call, newCount and a second new Date().
DashUpdateDone(d, r) ==
  /\ BagIn(r, pending[d])
  /\ pending' = [pending EXCEPT ![d] = @ (-) SetToBag({r})]
  /\ dash' = [dash EXCEPT ![d].waitingList =
                [id |-> r.id, hospital_id |-> r.hospital_id,
                 waiting_count |-> r.newCount, last_updated |-> now],
                          ![d].toast =
                Toast("Updated", <<"Waiting count updated to ", r.newCount>>)]
  /\ UNCHANGED <<dbVars, now, auth, calc, page, index>>


(* ------------------------- Auth (sign-in page) ------------------------- *)

\* at: the route shown. checking: the mount's getSession is awaited. request: the
\* call handleAuth awaits.
InitAuth ==
  [mounted |-> FALSE, checking |-> FALSE, email |-> "", password |-> "",
   isLogin |-> TRUE, loading |-> FALSE, request |-> "none", at |-> "/auth",
   toast |-> NoToast]

\* What the visitor types, and the messages of the errors the auth service returns.
Emails == {"", "a@b.c"}
Passwords == {"", "secret"}
AuthErrors == {"Invalid login credentials", "User already registered"}

\* The page is on screen.
AuthShown == auth.mounted /\ auth.at = "/auth"

\* The page mounts: useEffect calls checkAuth, which awaits getSession().
AuthMount ==
  /\ ~auth.mounted
  /\ auth' = [auth EXCEPT !.mounted = TRUE, !.checking = TRUE]
  /\ UNCHANGED <<dbVars, now, dash, pending, page, index, calc>>

\* checkAuth after its await: navigate("/dashboard") when there is a session.
AuthCheckAuth(session) ==
  /\ auth.checking
  /\ auth' = [auth EXCEPT !.checking = FALSE,
                          !.at = IF session # Anon THEN "/dashboard" ELSE @]
  /\ UNCHANGED <<dbVars, now, dash, pending, page, index, calc>>

\* The email and password boxes.
AuthType(email, password) ==
  /\ AuthShown
  /\ auth' = [auth EXCEPT !.email = email, !.password = password]
  /\ UNCHANGED <<dbVars, now, dash, pending, page, index, calc>>

\* The link under the form: setIsLogin(!isLogin).
AuthToggle ==
  /\ AuthShown
  /\ auth' = [auth EXCEPT !.isLogin = ~@]
  /\ UNCHANGED <<dbVars, now, dash, pending, page, index, calc>>

\* handleAuth up to its await. Both boxes are `required` and the submit button is
\* disabled while loading.
AuthSubmit ==
  /\ AuthShown /\ ~auth.loading
  /\ auth.email # "" /\ auth.password # ""
  /\ auth' = [auth EXCEPT !.loading = TRUE,
                          !.request = IF auth.isLogin THEN "signIn" ELSE "signUp"]
  /\ UNCHANGED <<dbVars, now, dash, pending, page, index, calc>>

\* A handleAuth whose finally block is missing: an error leaves loading set.
AuthCompletedNoFinally(a, error) ==
  IF error # ""
    THEN [a EXCEPT !.request = "none", !.toast = Toast("Error", <<error>>)]
    ELSE IF a.request = "signIn"
      THEN [a EXCEPT !.request = "none", !.loading = FALSE, !.at = "/dashboard",
                     !.toast = Toast("Welcome back!", <<"Successfully signed in">>)]
      ELSE [a EXCEPT !.request = "none", !.loading = FALSE,
                     !.toast = Toast("Account created!",
                                     <<"Please check your email to verify your account">>)]

\* handleAuth from its await on: the error thrown and caught, or the toast and, for
\* a sign-in, navigate("/dashboard"); then finally setLoading(false).
AuthCompleted(a, error) ==
  IF error # ""
    THEN [a EXCEPT !.request = "none", !.loading = FALSE,
                   !.toast = Toast("Error", <<error>>)]
    ELSE IF a.request = "signIn"
      THEN [a EXCEPT !.request = "none", !.loading = FALSE, !.at = "/dashboard",
                     !.toast = Toast("Welcome back!", <<"Successfully signed in">>)]
      ELSE [a EXCEPT !.request = "none", !.loading = FALSE,
                     !.toast = Toast("Account created!",
                                     <<"Please check your email to verify your account">>)]

\* signInWithPassword or signUp returns, with an error ("": none).
AuthResponse(error) ==
  /\ auth.request # "none"
  /\ auth' = AuthCompleted(auth, error)
  /\ UNCHANGED <<dbVars, now, dash, pending, page, index, calc>>


(* ------------------ requests of any client of the API ------------------ *)
\* The tables are served to every holder of the public key; what a request may do
\* is decided by the row-level-security policies alone.

\* Values a hand-written request carries.
ClientNames == {"B"}
ClientCounts == {-1}

\* insert into hospitals (user_id, name, ...) values (...)
ClientInsertHospital(actor, userId) ==
  /\ nextHospitalId <= MaxHospitals /\ nextRowId <= MaxRows
  /\ InsertHospital(actor, [user_id |-> userId, name |-> "A", address |-> "S",
                            pincode |-> None,
                            latitude |-> None, longitude |-> None])
  /\ UNCHANGED <<now, auth, calc, dash, pending, page, index>>

\* update hospitals set user_id = .., name = .. where id = h.id
ClientUpdateHospital(actor, h, userId, name) ==
  LET new == [h EXCEPT !.user_id = userId, !.name = name] IN
  /\ h \in hospitals
  /\ HospitalUpdateUsing(actor, h)
  /\ HospitalUpdateUsing(actor, new)
  /\ hospitals' = (hospitals \ {h}) \cup {new}
  /\ lastActor' = actor
  /\ UNCHANGED <<waiting_lists, nextHospitalId, nextRowId, otherWriters, now, auth, calc, dash, pending, page, index>>

\* delete from hospitals where id = h.id
ClientDeleteHospital(actor, h) ==
  /\ h \in hospitals
  /\ HospitalDeleteUsing(actor, h)
  /\ hospitals' = hospitals \ {h}
  /\ waiting_lists' = waiting_lists \ Cascade(h)
  /\ lastActor' = actor
  /\ UNCHANGED <<nextHospitalId, nextRowId, otherWriters, now, auth, calc, dash, pending, page, index>>

\* update waiting_lists set waiting_count = .., last_updated = .. where hospital_id = hid
ClientUpdateCount(actor, hid, count) ==
  /\ UpdateTargets(actor, hid) # {}
  /\ UpdateWaitingLists(actor, "client", hid, CountPayload(count, now))
  /\ UNCHANGED <<now, auth, calc, dash, pending, page, index>>

\* update waiting_lists set hospital_id = .. where id = w.id
ClientMoveWaitingList(actor, w, hid) ==
  /\ w \in waiting_lists
  /\ WaitingListUpdateUsing(actor, w)
  /\ ForeignKeyOk(hid)
  /\ hid # w.hospital_id
  /\ waiting_lists' = (waiting_lists \ {w}) \cup {[w EXCEPT !.hospital_id = hid]}
  /\ lastActor' = actor
  /\ otherWriters' = otherWriters \cup {hid, w.hospital_id}
  /\ UNCHANGED <<hospitals, nextHospitalId, nextRowId, now, auth, calc, dash, pending, page, index>>

\* insert into waiting_lists (hospital_id, waiting_count) values (hid, count)
ClientInsertWaitingList(actor, hid, count) ==
  LET row == [id |-> nextRowId, hospital_id |-> hid, waiting_count |-> count,
              last_updated |-> now] IN
  /\ nextRowId <= MaxRows
  /\ WaitingListInsertCheck(actor, row)
  /\ ForeignKeyOk(hid)
  /\ waiting_lists' = waiting_lists \cup {row}
  /\ nextRowId' = nextRowId + 1
  /\ lastActor' = actor
  /\ otherWriters' = otherWriters \cup {hid}
  /\ UNCHANGED <<hospitals, nextHospitalId, now, auth, calc, dash, pending, page, index>>

\* delete from waiting_lists where hospital_id = hid
ClientDeleteWaitingLists(actor, hid) ==
  LET hit == {w \in waiting_lists : w.hospital_id = hid /\ WaitingListDeleteUsing(actor, w)} IN
  /\ waiting_lists' = waiting_lists \ hit
  /\ lastActor' = actor
  /\ UNCHANGED <<hospitals, nextHospitalId, nextRowId, otherWriters, now, auth, calc, dash, pending, page, index>>

(* -------------------- Index: the public listing page -------------------- *)

\* Text is modelled by its characters, so that toLowerCase and includes do what
\* they do in the code.  Chars gives the characters of the strings in use.
Chars(s) ==
  CASE s = "" -> <<>>
    [] s = "A" -> <<"A">>
    [] s = "B" -> <<"B">>
    [] s = "S" -> <<"S">>
    [] s = "P" -> <<"P">>
    [] s = "Q" -> <<"Q">>
    [] s = "Alpha" -> <<"A", "l", "p", "h", "a">>
    [] s = "Beta" -> <<"B", "e", "t", "a">>
    [] s = "Delta" -> <<"D", "e", "l", "t", "a">>
    [] s = "Gamma" -> <<"G", "a", "m", "m", "a">>
    [] s = "Agra" -> <<"A", "g", "r", "a">>
    [] s = "Pune" -> <<"P", "u", "n", "e">>
    [] s = "alp" -> <<"a", "l", "p">>
    [] s = "PU" -> <<"P", "U">>

\* String.prototype.toLowerCase, character by character.
LowerChar(c) ==
  CASE c = "A" -> "a" [] c = "B" -> "b" [] c = "D" -> "d" [] c = "G" -> "g"
    [] c = "P" -> "p" [] c = "Q" -> "q" [] c = "S" -> "s" [] c = "U" -> "u"
    [] OTHER -> c
ToLowerCase(cs) == [i \in 1..Len(cs) |-> LowerChar(cs[i])]

\* String.prototype.includes: `needle` occurs in `hay` as a contiguous run.
Includes(hay, needle) ==
  \E i \in 0..(Len(hay) - Len(needle)) :
    \A j \in 1..Len(needle) : hay[i + j] = needle[j]

\* The position of a character in the ordering of ORDER BY name.
CharRank(c) ==
  CASE c = "A" -> 1 [] c = "B" -> 2 [] c = "D" -> 3 [] c = "G" -> 4
    [] c = "a" -> 5 [] c = "e" -> 6 [] c = "h" -> 7 [] c = "l" -> 8
    [] c = "m" -> 9 [] c = "p" -> 10 [] c = "t" -> 11

RECURSIVE CharsBefore(_, _)
CharsBefore(a, b) ==
  IF a = <<>> THEN b # <<>>
  ELSE IF b = <<>> THEN FALSE
  ELSE IF a[1] = b[1] THEN CharsBefore(Tail(a), Tail(b))
  ELSE CharRank(a[1]) < CharRank(b[1])

\* Numbers are fixed point: angles and ratios in millionths, coordinates in tenths
\* of a degree, distances in metres.  Division and multiplication round toward
\* zero, as symmetric in sign as the floating point of the code.
Scale == 1000 * 1000
Thousand == 10 * 10 * 10
Abs(x) == IF x < 0 THEN -x ELSE x
Sign(x) == IF x < 0 THEN -1 ELSE 1
Div(a, b) == Sign(a) * (Abs(a) \div b)

\* a * b of two millionths, in millionths.
Mul(a, b) ==
  LET ah == Abs(a) \div Thousand  al == Abs(a) % Thousand
      bh == Abs(b) \div Thousand  bl == Abs(b) % Thousand
  IN Sign(a) * Sign(b) * (ah * bh + (ah * bl + al * bh + (al * bl) \div Thousand) \div Thousand)

\* a * b of two millionths, in thousand-millionths.
MulFine(a, b) ==
  LET ah == Abs(a) \div Thousand  al == Abs(a) % Thousand
  IN Sign(a) * Sign(b) * (ah * Abs(b) + (al * Abs(b)) \div Thousand)

\* Math.PI
Pi == 3141593

\* Math.sin and Math.cos by their power series.
Sin(x) ==
  LET x2 == Mul(x, x)  x3 == Mul(x, x2)  x5 == Mul(x3, x2)  x7 == Mul(x5, x2)
  IN x - Div(x3, 6) + Div(x5, 120) - Div(x7, 5040)
Cos(x) ==
  LET x2 == Mul(x, x)  x4 == Mul(x2, x2)  x6 == Mul(x4, x2)  x8 == Mul(x6, x2)
  IN Scale - Div(x2, 2) + Div(x4, 24) - Div(x6, 720) + Div(x8, 40320)

\* Math.sqrt of thousand-millionths, in millionths: the largest r with
\* r * r <= n * 1000, found by bisection.
SquareAtMost(r, n) ==
  LET q == MulFine(r, r)
      rest == ((r % Thousand) * r) % Thousand
  IN q < n \/ (q = n /\ rest = 0)
RECURSIVE SqrtSearch(_, _, _)
SqrtSearch(n, lo, hi) ==
  IF lo >= hi THEN lo
  ELSE LET mid == (lo + hi + 1) \div 2 IN
       IF SquareAtMost(mid, n) THEN SqrtSearch(n, mid, hi)
                               ELSE SqrtSearch(n, lo, mid - 1)
Sqrt(n) == SqrtSearch(n, 0, Scale)

\* y / x in millionths, 0 <= y <= x.
Ratio(y, x) ==
  ((y * Thousand) \div x) * Thousand + (((y * Thousand) % x) * Thousand) \div x

\* Math.atan2(y, x) for y, x >= 0, by the power series of the arc tangent.
Atan(t) ==
  LET t2 == Mul(t, t)  t3 == Mul(t, t2)  t5 == Mul(t3, t2)  t7 == Mul(t5, t2)
      t9 == Mul(t7, t2)
  IN t - Div(t3, 3) + Div(t5, 5) - Div(t7, 7) + Div(t9, 9)
Atan2(y, x) ==
  IF y = 0 THEN 0
  ELSE IF y <= x THEN Atan(Ratio(y, x))
  ELSE Div(Pi, 2) - Atan(Ratio(x, y))

\* Earth's radius in km.
R == 6371

\* A haversine variant that takes the cosine of the first latitude twice.
calculateDistanceFirstLatitude(lat1, lon1, lat2, lon2) ==
  LET dLat == Div((lat2 - lat1) * Pi, 1800)
      dLon == Div((lon2 - lon1) * Pi, 1800)
      a == MulFine(Sin(Div(dLat, 2)), Sin(Div(dLat, 2)))
           + MulFine(Mul(Mul(Cos(Div(lat1 * Pi, 1800)), Cos(Div(lat1 * Pi, 1800))),
                         Sin(Div(dLon, 2))),
                     Sin(Div(dLon, 2)))
      c == 2 * Atan2(Sqrt(a), Sqrt(Scale * Thousand - a))
  IN R * (c \div Thousand) + (R * (c % Thousand)) \div Thousand

\* calculateDistance: the haversine distance in metres between two points given
\* in tenths of a degree.
calculateDistance(lat1, lon1, lat2, lon2) ==
  LET dLat == Div((lat2 - lat1) * Pi, 1800)
      dLon == Div((lon2 - lon1) * Pi, 1800)
      a == MulFine(Sin(Div(dLat, 2)), Sin(Div(dLat, 2)))
           + MulFine(Mul(Mul(Cos(Div(lat1 * Pi, 1800)), Cos(Div(lat2 * Pi, 1800))),
                         Sin(Div(dLon, 2))),
                     Sin(Div(dLon, 2)))
      c == 2 * Atan2(Sqrt(a), Sqrt(Scale * Thousand - a))
  IN R * (c \div Thousand) + (R * (c % Thousand)) \div Thousand

\* float8 multiplication: a * b of two millionths, rounded to the nearest millionth.
MulNearest(a, b) ==
  LET ah == Abs(a) \div Thousand  al == Abs(a) % Thousand
      bh == Abs(b) \div Thousand  bl == Abs(b) % Thousand
      t == (ah * bl + al * bh) * Thousand + al * bl
  IN Sign(a) * Sign(b) * (ah * bh + (t + Scale \div 2) \div Scale)

\* radians() of tenths of a degree, in millionths.
radians(d) == Div(d * Pi, 1800)

\* acos() of PostgreSQL for an argument in [-1, 1], in millionths of a radian.
Acos(x) ==
  LET y == Sqrt(Scale * Thousand - MulFine(x, x)) IN
  IF x >= 0 THEN Atan2(y, x) ELSE Pi - Atan2(y, -x)

\* What a call of a database function gives: a value, or an error raised.
Returned(metres) == [raised |-> FALSE, metres |-> metres]
Raised == [raised |-> TRUE, metres |-> 0]

\* public.calculate_distance: the spherical law of cosines, in metres. acos raises
\* "input is out of range" for an argument outside [-1, 1].
calculate_distance(lat1, lon1, lat2, lon2) ==
  LET x == MulNearest(MulNearest(Cos(radians(lat1)), Cos(radians(lat2))),
                      Cos(radians(lon2) - radians(lon1)))
           + MulNearest(Sin(radians(lat1)), Sin(radians(lat2)))
      c == Acos(x)
  IN IF Abs(x) > Scale THEN Raised
     ELSE Returned(R * (c \div Thousand) + (R * (c % Thousand)) \div Thousand)

\* Points the two distance functions are applied to, in tenths of a degree.
DistancePoints ==
  {<<0, 0>>, <<0, 50>>, <<123, 100>>, <<285, -150>>, <<-200, 100>>, <<285, 100>>}

InitCalc == [a |-> <<0, 0>>, b |-> <<0, 0>>, client |-> None, back |-> None,
             sql |-> None]

\* calculateDistance called with the points in the order a, b.
CalcClient ==
  /\ calc.client = None
  /\ calc' = [calc EXCEPT !.client =
               Some(calculateDistance(calc.a[1], calc.a[2], calc.b[1], calc.b[2]))]
  /\ UNCHANGED <<dbVars, now, auth, dash, pending, page, index>>

\* calculateDistance called with the points in the order b, a.
CalcClientBack ==
  /\ calc.back = None
  /\ calc' = [calc EXCEPT !.back =
               Some(calculateDistance(calc.b[1], calc.b[2], calc.a[1], calc.a[2]))]
  /\ UNCHANGED <<dbVars, now, auth, dash, pending, page, index>>

\* SELECT public.calculate_distance(...) for the points a, b.
CalcSql ==
  /\ calc.sql = None
  /\ calc' = [calc EXCEPT !.sql =
               Some(calculate_distance(calc.a[1], calc.a[2], calc.b[1], calc.b[2]))]
  /\ UNCHANGED <<dbVars, now, auth, dash, pending, page, index>>

\* Radius of the nearby filter in km.
NearbyRadiusKm == 50

\* JavaScript truthiness of a nullable number and of a nullable string.
TruthyNumber(v) == v # None /\ v[1] # 0
TruthyString(v) == v # None /\ v[1] # ""

InitIndexPage ==
  [pc |-> "unmounted", hospitals |-> <<>>, searchQuery |-> "", loading |-> TRUE,
   userLocation |-> None, locationMode |-> "nearby", userPincode |-> "",
   geolocation |-> FALSE, geoPending |-> 0]

\* What the visitor can type and where the browser can place them.
Queries == {"", "alp", "PU"}
Pincodes == {"", "P", "Q"}
Positions == {[latitude |-> 0, longitude |-> 0], [latitude |-> 100, longitude |-> 100]}

\* The rows of a select without .order("name"): in any order.
FetchAnyOrder ==
  {s \in [1..Cardinality(hospitals) -> hospitals] :
     \A i, j \in DOMAIN s : i # j => s[i] # s[j]}

\* select *, waiting_lists(waiting_count, last_updated) from hospitals order by name:
\* the orders in which the rows may come back.
Embedded(h) ==
  h @@ [waiting_lists |-> {CountPayload(w.waiting_count, w.last_updated) : w \in Cascade(h)}]
FetchOrders ==
  {s \in [1..Cardinality(hospitals) -> hospitals] :
     /\ \A i, j \in DOMAIN s : i # j => s[i] # s[j]
     /\ \A i, j \in DOMAIN s : i < j => ~CharsBefore(Chars(s[j].name), Chars(s[i].name))}

\* A getUserLocation that leaves the mode alone in a browser without geolocation.
GetUserLocationKeepMode(ix) ==
  IF ix.geolocation THEN [ix EXCEPT !.geoPending = @ + 1]
                    ELSE ix

\* getUserLocation
GetUserLocation(ix) ==
  IF ix.geolocation THEN [ix EXCEPT !.geoPending = @ + 1]
                    ELSE [ix EXCEPT !.locationMode = "all"]

\* useEffect on mount: fetchHospitals() is sent and getUserLocation() runs.
IndexMount(supported) ==
  /\ index.pc = "unmounted"
  /\ index' = GetUserLocation([index EXCEPT !.pc = "fetching", !.geolocation = supported])
  /\ UNCHANGED <<dbVars, now, auth, calc, dash, pending, page>>

\* fetchHospitals, from the response on.
IndexFetchHospitals(netOk) ==
  /\ index.pc = "fetching"
  /\ IF netOk
       THEN \E s \in FetchOrders :
              index' = [index EXCEPT !.hospitals = [i \in DOMAIN s |-> Embedded(s[i])],
                                     !.loading = FALSE, !.pc = "mounted"]
       ELSE index' = [index EXCEPT !.loading = FALSE, !.pc = "mounted"]
  /\ UNCHANGED <<dbVars, now, auth, calc, dash, pending, page>>

\* getCurrentPosition's success callback
IndexLocationFound(position) ==
  /\ index.geoPending > 0
  /\ index' = [index EXCEPT !.geoPending = @ - 1, !.userLocation = Some(position)]
  /\ UNCHANGED <<dbVars, now, auth, calc, dash, pending, page>>

\* getCurrentPosition's error callback
IndexLocationDenied ==
  /\ index.geoPending > 0
  /\ index' = [index EXCEPT !.geoPending = @ - 1, !.locationMode = "all"]
  /\ UNCHANGED <<dbVars, now, auth, calc, dash, pending, page>>

\* The Nearby button
IndexClickNearby ==
  /\ index.pc # "unmounted"
  /\ (index.userLocation = None /\ index.geolocation) => index.geoPending < MaxGeo
  /\ index' = IF index.userLocation = None
                THEN GetUserLocation([index EXCEPT !.locationMode = "nearby"])
                ELSE [index EXCEPT !.locationMode = "nearby"]
  /\ UNCHANGED <<dbVars, now, auth, calc, dash, pending, page>>

\* The Search by Pincode and Show All buttons
IndexClickMode(mode) ==
  /\ index.pc # "unmounted"
  /\ index' = [index EXCEPT !.locationMode = mode]
  /\ UNCHANGED <<dbVars, now, auth, calc, dash, pending, page>>

\* The search box
IndexSetSearchQuery(q) ==
  /\ index.pc # "unmounted"
  /\ index' = [index EXCEPT !.searchQuery = q]
  /\ UNCHANGED <<dbVars, now, auth, calc, dash, pending, page>>

\* The pincode box, rendered in pincode mode only
IndexSetUserPincode(code) ==
  /\ index.pc # "unmounted"
  /\ index.locationMode = "pincode"
  /\ index' = [index EXCEPT !.userPincode = code]
  /\ UNCHANGED <<dbVars, now, auth, calc, dash, pending, page>>

\* A search that looks at the name alone.
MatchesNameOnly(hospital, searchQuery) ==
  Includes(ToLowerCase(Chars(hospital.name)), ToLowerCase(Chars(searchQuery)))

\* matchesSearch of the filter callback
MatchesSearch(hospital, searchQuery) ==
  \/ Includes(ToLowerCase(Chars(hospital.name)), ToLowerCase(Chars(searchQuery)))
  \/ Includes(ToLowerCase(Chars(hospital.address)), ToLowerCase(Chars(searchQuery)))

\* calculateDistance from the user's location to a hospital that has coordinates.
DistanceTo(ix, hospital) ==
  calculateDistance(ix.userLocation[1].latitude, ix.userLocation[1].longitude,
                    hospital.latitude[1], hospital.longitude[1])

\* The callback of hospitals.filter
KeepHospital(ix, hospital) ==
  IF ~MatchesSearch(hospital, ix.searchQuery) THEN FALSE
  ELSE IF ix.locationMode = "all" THEN TRUE
  ELSE IF /\ ix.locationMode = "nearby" /\ ix.userLocation # None
          /\ TruthyNumber(hospital.latitude) /\ TruthyNumber(hospital.longitude)
    THEN DistanceTo(ix, hospital) <= NearbyRadiusKm * Thousand
  ELSE IF /\ ix.locationMode = "pincode" /\ ix.userPincode # ""
          /\ TruthyString(hospital.pincode)
    THEN hospital.pincode[1] = ix.userPincode
  ELSE TRUE

\* The comparator of .sort
CompareHospitals(ix, a, b) ==
  IF /\ ix.locationMode = "nearby" /\ ix.userLocation # None
     /\ TruthyNumber(a.latitude) /\ TruthyNumber(a.longitude)
     /\ TruthyNumber(b.latitude) /\ TruthyNumber(b.longitude)
    THEN DistanceTo(ix, a) - DistanceTo(ix, b)
    ELSE 0

\* Array.prototype.sort, stable: each element is inserted, from the right, behind
\* the last element that does not compare greater than it.
RECURSIVE InsertSorted(_, _, _)
InsertSorted(ix, sorted, x) ==
  IF sorted # <<>> /\ CompareHospitals(ix, sorted[Len(sorted)], x) > 0
    THEN Append(InsertSorted(ix, SubSeq(sorted, 1, Len(sorted) - 1), x), sorted[Len(sorted)])
    ELSE Append(sorted, x)
RECURSIVE SortHospitals(_, _)
SortHospitals(ix, list) ==
  IF list = <<>> THEN <<>>
  ELSE InsertSorted(ix, SortHospitals(ix, SubSeq(list, 1, Len(list) - 1)), list[Len(list)])

\* filteredHospitals
filteredHospitals(ix) ==
  SortHospitals(ix, SelectSeq(ix.hospitals, LAMBDA h : KeepHospital(ix, h)))

\* The hospitals on the page: the skeleton cards stand in while loading.
Displayed == IF index.loading THEN <<>> ELSE filteredHospitals(index)

\* Hospitals as createHospital leaves them: with the coordinates the browser gave
\* (tenths of a degree) or with none, with a pincode or with none; two of them
\* under one name.
ListedHospital(id, name, address, pincode, latitude, longitude) ==
  [id |-> id, user_id |-> 1 + (id % 2), name |-> name, address |-> address,
   pincode |-> pincode, latitude |-> latitude, longitude |-> longitude]
Catalogue ==
  {ListedHospital(1, "Alpha", "Agra", None, Some(0), Some(0)),
   ListedHospital(2, "Beta", "Pune", None, Some(0), Some(50)),
   ListedHospital(3, "Delta", "Pune", Some("P"), Some(104), Some(100)),
   ListedHospital(4, "Gamma", "Agra", Some("P"), None, None),
   ListedHospital(5, "Beta", "Agra", Some("Q"), Some(104), Some(101))}

(* ------------------------------ the clock ------------------------------ *)

Tick ==
  /\ now < MaxTime
  /\ now' = now + 1
  /\ UNCHANGED <<dbVars, dash, pending, page, index, calc, auth>>

Init ==
  /\ hospitals = {}
  /\ waiting_lists = {}
  /\ nextHospitalId = 1
  /\ nextRowId = 1
  /\ now = 0
  /\ dash = [d \in Dashboards |-> InitDash]
  /\ pending = [d \in Dashboards |-> EmptyBag]
  /\ page = [p \in Pages |-> InitPage]
  /\ lastActor = Anon
  /\ otherWriters = {}
  /\ index = InitIndexPage
  /\ calc = InitCalc
  /\ auth = InitAuth

PageNext(P) ==
  \/ \E p \in P, hid \in 0..MaxHospitals : PageLoad(p, hid)
  \/ \E p \in P, netOk \in BOOLEAN : PageHospital(p, netOk)
  \/ \E p \in P, netOk \in BOOLEAN : PageWaiting(p, netOk)
  \/ \E p \in P, netOk \in BOOLEAN : PageUpdate(p, netOk)

DashLoadNext(D, S, F) ==
  \/ \E d \in D, session \in S : DashCheckAuth(d, session)
  \/ \E d \in D, netOk \in BOOLEAN : DashFetchHospital(d, netOk)
  \/ \E d \in D, netOk \in BOOLEAN : DashFetchWaiting(d, netOk)
  \/ \E d \in D, form \in F, netOk \in BOOLEAN : DashCreateHospital(d, form, netOk)

DashCountNext(D) ==
  \/ \E d \in D, change \in {1, -1}, netOk \in BOOLEAN :
       DashUpdateWaitingCount(d, change, netOk)
  \/ \E d \in D : \E r \in BagToSet(pending[d]) : DashUpdateDone(d, r)

ClientNext ==
  \/ \E a \in Actors, u \in Actors : ClientInsertHospital(a, u)
  \/ \E a \in Actors, h \in hospitals, u \in Actors, n \in ClientNames :
       ClientUpdateHospital(a, h, u, n)
  \/ \E a \in Actors, h \in hospitals : ClientDeleteHospital(a, h)
  \/ \E a \in Actors, hid \in HospitalIds, c \in ClientCounts : ClientUpdateCount(a, hid, c)
  \/ \E a \in Actors, w \in waiting_lists, hid \in HospitalIds :
       ClientMoveWaitingList(a, w, hid)
  \/ \E a \in Actors, hid \in HospitalIds, c \in ClientCounts :
       ClientInsertWaitingList(a, hid, c)
  \/ \E a \in Actors, hid \in HospitalIds : ClientDeleteWaitingLists(a, hid)

\* One owner's dashboard and one browser tab checking in, again and again.
Next ==
  \/ Tick
  \/ PageNext({"p1"})
  \/ \E hid \in 0..MaxHospitals : PageReload("p1", hid)
  \/ DashLoadNext({"d1"}, {Anon, 1}, {PincodeForm, Form("", "S", "P", "pincode", None)})
  \/ DashCountNext({"d1"})

Spec == Init /\ [][Next]_vars

\* Check-ins alone write the count: two page loads, and the owner's dashboard only
\* registering the hospital.
NextCheckin ==
  \/ Tick
  \/ PageNext(Pages)
  \/ DashLoadNext({"d1"}, {Anon, 1}, Forms)

SpecCheckin == Init /\ [][NextCheckin]_vars

\* A request of incrementWaitingList that is awaited gets its response.
PageResponse(p) ==
  \E netOk \in BOOLEAN :
    PageHospital(p, netOk) \/ PageWaiting(p, netOk) \/ PageUpdate(p, netOk)

\* The same pages, each awaited response arriving in the end.
SpecCheckinLive ==
  Init /\ [][NextCheckin]_vars /\ \A p \in Pages : WF_vars(PageResponse(p))

\* The tables under every request the row policies admit, from any client.
NextRls == ClientNext

SpecRls == Init /\ [][NextRls]_vars

\* The listing page over a database that already holds hospitals.
InitListing ==
  /\ now = 0
  /\ hospitals \in SUBSET Catalogue
  /\ waiting_lists = {NewWaitingList(h.id, h.id) : h \in hospitals}
  /\ nextHospitalId = Cardinality(Catalogue) + 1
  /\ nextRowId = Cardinality(Catalogue) + 1
  /\ dash = [d \in Dashboards |-> InitDash]
  /\ pending = [d \in Dashboards |-> EmptyBag]
  /\ page = [p \in Pages |-> InitPage]
  /\ lastActor = Anon
  /\ otherWriters = {}
  /\ index = InitIndexPage
  /\ calc = InitCalc
  /\ auth = InitAuth

NextIndex ==
  \/ \E supported \in BOOLEAN : IndexMount(supported)
  \/ \E netOk \in BOOLEAN : IndexFetchHospitals(netOk)
  \/ \E position \in Positions : IndexLocationFound(position)
  \/ IndexLocationDenied
  \/ IndexClickNearby
  \/ \E mode \in {"pincode", "all"} : IndexClickMode(mode)
  \/ \E q \in Queries : IndexSetSearchQuery(q)
  \/ \E code \in Pincodes : IndexSetUserPincode(code)

SpecIndex == InitListing /\ [][NextIndex]_vars

\* A check-in page, and the owner who registers the hospital on the dashboard and
\* deletes it again with a request of their own.
NextCheckinOwner ==
  \/ PageNext({"p1"})
  \/ DashLoadNext({"d1"}, {Anon, 1}, {PincodeForm})
  \/ \E h \in hospitals : ClientDeleteHospital(1, h)

SpecCheckinOwner == Init /\ [][NextCheckinOwner]_vars

\* One dashboard while the browser's session changes: signed out, signed in again,
\* signed in as another account.
NextSession ==
  \/ DashLoadNext({"d1"}, Actors, {PincodeForm})
  \/ \E session \in Actors : DashAuthStateChange("d1", session)
  \/ DashCountNext({"d1"})

SpecSession == Init /\ [][NextSession]_vars

\* The sign-in page alone.
NextAuth ==
  \/ AuthMount
  \/ \E session \in Actors : AuthCheckAuth(session)
  \/ \E email \in Emails, password \in Passwords : AuthType(email, password)
  \/ AuthToggle
  \/ AuthSubmit
  \/ \E error \in AuthErrors \cup {""} : AuthResponse(error)

SpecAuth == Init /\ [][NextAuth]_vars

\* One account signed in on two dashboards (two tabs or devices) at once.
NextOwner ==
  \/ Tick
  \/ DashLoadNext(Dashboards, {Anon, 1}, Forms)

SpecOwner == Init /\ [][NextOwner]_vars

\* One dashboard registering its hospital: the location buttons, the geolocation
\* callbacks whenever they arrive, and the submit button.
NextRegister ==
  \/ \E session \in {Anon, 1} : DashCheckAuth("d1", session)
  \/ \E netOk \in BOOLEAN : DashFetchHospital("d1", netOk)
  \/ \E netOk \in BOOLEAN : DashFetchWaiting("d1", netOk)
  \/ \E supported \in BOOLEAN : DashClickAuto("d1", supported)
  \/ DashClickPincode("d1")
  \/ \E position \in DashPositions : DashLocationFound("d1", position)
  \/ DashLocationError("d1")
  \/ \E name \in {"", "A"}, address \in {"", "S"}, pincode \in {"", "P"},
        netOk \in BOOLEAN : DashSubmit("d1", name, address, pincode, netOk)

SpecRegister == Init /\ [][NextRegister]_vars

\* The two distance functions applied to every pair of points.
InitDistance ==
  /\ hospitals = {}
  /\ waiting_lists = {}
  /\ nextHospitalId = 1
  /\ nextRowId = 1
  /\ now = 0
  /\ dash = [d \in Dashboards |-> InitDash]
  /\ pending = [d \in Dashboards |-> EmptyBag]
  /\ page = [p \in Pages |-> InitPage]
  /\ lastActor = Anon
  /\ otherWriters = {}
  /\ index = InitIndexPage
  /\ auth = InitAuth
  /\ \E a \in DistancePoints, b \in DistancePoints : calc = [InitCalc EXCEPT !.a = a, !.b = b]

NextDistance ==
  \/ CalcClient
  \/ CalcClientBack
  \/ CalcSql

SpecDistance == InitDistance /\ [][NextDistance]_vars

(* ------------------------------- claims -------------------------------- *)

RowsOf(hid) == {w \in waiting_lists : w.hospital_id = hid}
Owner(hid) == {h.user_id : h \in {g \in hospitals : g.id = hid}}
HospitalGone(hid) == (\E h \in hospitals : h.id = hid) /\ ~(\E h \in hospitals' : h.id = hid)

\* C1: under dashboard updates and self-check-ins, in any order and interleaving,
\* no stored waiting count is ever negative.
C1_CountNeverNegative == \A w \in waiting_lists : w.waiting_count >= 0

\* C1 witness: a check-in has succeeded, the dashboard has written too, and the
\* count stands at its floor.
C1_Witness ==
  \E w \in waiting_lists :
    /\ w.waiting_count = 0
    /\ w.hospital_id \in otherWriters
    /\ page["p1"].success /\ page["p1"].hospitalId = w.hospital_id

Successes(hid) == {p \in Pages : page[p].hospitalId = hid /\ page[p].success}
InFlight(hid) ==
  {p \in Pages : page[p].hospitalId = hid /\ page[p].pc \in {"hospital", "waiting", "update"}}

\* C2: with check-ins the only writers, once the check-ins of a hospital have ended
\* its stored count is the initial count (0, from the trigger) plus the number of
\* check-ins that showed success.
C2_EveryCheckinCounts ==
  \A w \in waiting_lists :
    (w.hospital_id \notin otherWriters /\ InFlight(w.hospital_id) = {})
      => w.waiting_count = Cardinality(Successes(w.hospital_id))

\* C3: a dashboard update that succeeds leaves every entry of the hospital at
\* max(0, c + change), c being the count stored just before the write.
C3_DashboardWritesFromStored ==
  [][\A d \in Dashboards, change \in {1, -1} :
       DashUpdateWaitingCount(d, change, TRUE) =>
         \A w \in RowsOf(dash[d].hospital) : \A v \in waiting_lists' :
           v.id = w.id => v.waiting_count = Max(0, w.waiting_count + change)]_vars

\* C4: two check-ins of one hospital that read the same count c, with no other
\* writer, both end on the success screen showing c + 1 while the stored count is
\* c + 1: one of the two increments is lost and nothing reports it.
C4_LostUpdateUnreported ==
  \A p \in Pages, q \in Pages :
    (/\ p # q
     /\ page[p].success /\ page[q].success
     /\ page[p].hospitalId = page[q].hospitalId
     /\ page[p].hospitalId \notin otherWriters
     /\ page[p].waitingList.waiting_count = page[q].waitingList.waiting_count)
    => /\ page[p].newCount = page[p].waitingList.waiting_count + 1
       /\ page[q].newCount = page[p].newCount
       /\ ~page[p].loading /\ ~page[q].loading
       /\ \A w \in RowsOf(page[p].hospitalId) : w.waiting_count = page[p].newCount

\* C4 witness: both pages are on the success screen after reading the same count.
C4_Witness ==
  /\ page["p1"].success /\ page["p2"].success
  /\ page["p1"].hospitalId = page["p2"].hospitalId
  /\ page["p1"].waitingList.waiting_count = page["p2"].waitingList.waiting_count
  /\ \E w \in RowsOf(page["p1"].hospitalId) : w.waiting_count = page["p1"].newCount

\* C5: every hospital has exactly one waiting_lists row, whatever the row policies
\* let a client do.
C5_OneEntryPerHospital ==
  \A h \in hospitals : Cardinality(RowsOf(h.id)) = 1

\* C6: a request of anyone but the hospital's owner changes a stored count only by
\* adding one to it.
C6_NonOwnerOnlyIncrements ==
  [][\A w \in waiting_lists : \A v \in waiting_lists' :
       (/\ v.id = w.id /\ v.hospital_id = w.hospital_id
        /\ v.waiting_count # w.waiting_count
        /\ lastActor' \notin Owner(w.hospital_id))
       => v.waiting_count = w.waiting_count + 1]_vars

\* C7: a hospital row appears only with the user_id of the account that inserted
\* it, and a row changes or disappears only by a request of the account its
\* user_id names, its user_id staying what it was.
C7_HospitalOwnerOnly ==
  [][/\ \A h \in hospitals' :
          (~(\E g \in hospitals : g.id = h.id))
            => (lastActor' # Anon /\ h.user_id = lastActor')
     /\ \A g \in hospitals :
          (g \notin hospitals')
            => /\ lastActor' # Anon /\ lastActor' = g.user_id
               /\ \A h \in hospitals' : h.id = g.id => h.user_id = g.user_id]_vars

\* C7 witness: an owner has renamed a hospital and a hospital has been deleted.
C7_Witness ==
  /\ \E h \in hospitals : h.name = "B"
  /\ nextHospitalId > Cardinality(hospitals) + 1

\* C8: every waiting_lists row refers to an existing hospital, and a row
\* disappears only in the step that deletes its hospital.
C8_EntryBoundToHospital ==
  /\ [](\A w \in waiting_lists : ForeignKeyOk(w.hospital_id))
  /\ [][\A w \in waiting_lists :
          (~(\E v \in waiting_lists' : v.id = w.id)) => HospitalGone(w.hospital_id)]_vars

\* C8 witness: a hospital was deleted while another, with its entry, remains.
C8_Witness ==
  /\ nextHospitalId > Cardinality(hospitals) + 1
  /\ nextRowId > Cardinality(waiting_lists) + 1
  /\ hospitals # {}

\* C9: whenever a write of the dashboard or of a check-in changes an entry's count,
\* the entry's last_updated after the write is the writer's current time.
C9_CountChangeStampsTime ==
  [][\A w \in waiting_lists : \A v \in waiting_lists' :
       (v.id = w.id /\ v.waiting_count # w.waiting_count) => v.last_updated = now]_vars

\* C9 witness: an entry whose count was changed after the clock had advanced.
C9_Witness ==
  \E w \in waiting_lists : w.waiting_count > 0 /\ w.last_updated > 0
\* C10: in nearby mode with a user location, no hospital on the page lacks a
\* latitude or a longitude.
C10_NearbyHidesUnlocated ==
  (index.locationMode = "nearby" /\ index.userLocation # None)
    => \A i \in DOMAIN Displayed :
         Displayed[i].latitude # None /\ Displayed[i].longitude # None
\* A hospital with both coordinates stored.
HasCoordinates(hospital) == hospital.latitude # None /\ hospital.longitude # None

\* C11: in nearby mode with a user location, no hospital on the page that has
\* coordinates (a latitude or longitude of exactly 0 included) lies more than 50 km
\* from the user.
C11_NearbyWithinRadius ==
  (index.locationMode = "nearby" /\ index.userLocation # None)
    => \A i \in DOMAIN Displayed :
         HasCoordinates(Displayed[i])
           => DistanceTo(index, Displayed[i]) <= NearbyRadiusKm * Thousand
\* The hospitals on the page, and the fetched hospitals, as sets.
DisplayedSet == {Displayed[i] : i \in DOMAIN Displayed}
FetchedSet == {index.hospitals[i] : i \in DOMAIN index.hospitals}

\* C12: in pincode mode with a pincode typed in, the page lists exactly the
\* search-matching hospitals whose pincode equals it; none with a null pincode.
C12_PincodeExact ==
  (index.locationMode = "pincode" /\ index.userPincode # "" /\ ~index.loading)
    => DisplayedSet = {h \in FetchedSet : /\ MatchesSearch(h, index.searchQuery)
                                          /\ h.pincode = Some(index.userPincode)}
\* C13: in nearby mode with a user location, the hospitals on the page that have
\* coordinates stand in non-decreasing order of their distance from the user, and
\* those at equal distance in their fetched order.
FetchedIndex(hospital) == CHOOSE i \in DOMAIN index.hospitals : index.hospitals[i] = hospital
C13_NearbySortedByDistance ==
  (index.locationMode = "nearby" /\ index.userLocation # None)
    => \A i, j \in DOMAIN Displayed :
         (i < j /\ HasCoordinates(Displayed[i]) /\ HasCoordinates(Displayed[j]))
           => \/ DistanceTo(index, Displayed[i]) < DistanceTo(index, Displayed[j])
              \/ /\ DistanceTo(index, Displayed[i]) = DistanceTo(index, Displayed[j])
                 /\ FetchedIndex(Displayed[i]) < FetchedIndex(Displayed[j])
\* C14: in pincode mode and in all mode the hospitals on the page stand in ascending
\* order of name, those of equal name in their fetched order.
C14_ListedByName ==
  index.locationMode \in {"pincode", "all"}
    => \A i, j \in DOMAIN Displayed :
         i < j => /\ ~CharsBefore(Chars(Displayed[j].name), Chars(Displayed[i].name))
                  /\ Displayed[i].name = Displayed[j].name
                       => FetchedIndex(Displayed[i]) < FetchedIndex(Displayed[j])

\* C14 witness: a page in pincode or all mode listing at least three hospitals, two
\* of them under one name.
C14_Witness ==
  /\ index.locationMode \in {"pincode", "all"}
  /\ Len(Displayed) >= 3
  /\ \E i, j \in DOMAIN Displayed : i < j /\ Displayed[i].name = Displayed[j].name
\* The lower-cased query occurs, as a run of characters, in the lower-cased text.
QueryIn(text, query) ==
  LET t == [i \in 1..Len(Chars(text)) |-> LowerChar(Chars(text)[i])]
      q == [i \in 1..Len(Chars(query)) |-> LowerChar(Chars(query)[i])]
  IN \E off \in 0..Len(t) : /\ off + Len(q) <= Len(t)
                            /\ \A k \in 1..Len(q) : t[off + k] = q[k]
QueryMatches(hospital) ==
  QueryIn(hospital.name, index.searchQuery) \/ QueryIn(hospital.address, index.searchQuery)

\* C15: in every mode a hospital on the page has the lower-cased query in its
\* lower-cased name or address; the empty query is in every name; and in all mode
\* the page lists exactly the fetched hospitals the query matches.
C15_SearchFilter ==
  /\ \A h \in DisplayedSet : QueryMatches(h)
  /\ index.searchQuery = "" => \A h \in FetchedSet : QueryMatches(h)
  /\ (index.locationMode = "all" /\ ~index.loading)
       => DisplayedSet = {h \in FetchedSet : QueryMatches(h)}

\* C15 witness: in all mode a query in capitals that only addresses contain keeps
\* some of the fetched hospitals and drops others.
C15_Witness ==
  /\ index.locationMode = "all" /\ ~index.loading /\ index.searchQuery = "PU"
  /\ DisplayedSet # {} /\ DisplayedSet # FetchedSet
\* C16: no account owns more than one hospital row, however the dashboard sessions
\* of the account interleave their fetchHospitalData and createHospital.
C16_OneHospitalPerOwner ==
  \A u \in Users : Cardinality({h \in hospitals : h.user_id = u}) <= 1

\* C17: a step of updateWaitingCount whose write fails shows the error toast, leaves
\* the dashboard's local entry (count and last_updated) as it was, writes nothing
\* to waiting_lists and leaves no request of its own outstanding.
C17_FailedUpdateReported ==
  [][\A d \in Dashboards, change \in {1, -1} :
       DashUpdateWaitingCount(d, change, FALSE) =>
         /\ dash'[d].toast = Toast("Error", <<"Failed to update waiting count">>)
         /\ dash'[d].waitingList = dash[d].waitingList
         /\ waiting_lists' = waiting_lists
         /\ pending' = pending]_vars

C17_Witness ==
  \E d \in Dashboards :
    /\ dash[d].toast = Toast("Error", <<"Failed to update waiting count">>)
    /\ dash[d].waitingList # NullWaitingList
    /\ \E w \in waiting_lists : w.id = dash[d].waitingList.id
                                /\ w.waiting_count = dash[d].waitingList.waiting_count


\* C18: every hospital row a dashboard inserts has a name and an address; if the
\* page's location mode at the submission is "auto" a location was detected and the
\* row carries it, and if the mode is "pincode" the row has a pincode and null
\* coordinates, whichever of the buttons and geolocation callbacks set the mode last.
C18_InsertOnlyCompleteForm ==
  [][\A h \in hospitals' \ hospitals :
       \E d \in Dashboards :
         /\ FormShown(d) /\ dash'[d].hospital = h.id
         /\ h.name # "" /\ h.address # ""
         /\ dash[d].locationMode = "auto" =>
              /\ dash[d].autoLocation # None
              /\ h.latitude = Some(dash[d].autoLocation[1].latitude)
              /\ h.longitude = Some(dash[d].autoLocation[1].longitude)
         /\ dash[d].locationMode = "pincode" =>
              /\ h.pincode # None
              /\ h.latitude = None /\ h.longitude = None]_vars

\* A row inserted in pincode mode by a page that had detected a location before.
C18_Witness ==
  \E d \in Dashboards, h \in hospitals :
    /\ dash[d].hospital = h.id /\ dash[d].pc = "fetchHospital"
    /\ dash[d].toast.title = "Success"
    /\ dash[d].autoLocation # None /\ dash[d].locationMode = "pincode"
    /\ h.latitude = None /\ h.pincode # None


\* C19: the distance computed between a point and itself is 0, by the client's
\* calculateDistance and by the database's calculate_distance, which returns a value.
C19_SelfDistanceZero ==
  calc.a = calc.b =>
    /\ calc.client # None => calc.client = Some(0)
    /\ calc.sql # None => calc.sql = Some(Returned(0))


\* C20: calculateDistance is symmetric: computed for the points a, b and for the
\* points b, a it gives the same distance.
C20_DistanceSymmetric ==
  calc.client # None /\ calc.back # None => calc.client = calc.back

\* Both orders computed for two points on different latitudes and longitudes.
C20_Witness ==
  /\ calc.client # None /\ calc.back # None
  /\ calc.a[1] # calc.b[1] /\ calc.a[2] # calc.b[2]
  /\ calc.client[1] > 0


\* The fetched hospitals the search query matches.
SearchMatching == {h \in FetchedSet : QueryMatches(h)}

\* A step in which getUserLocation finds no geolocation in navigator.
LocationUnsupported ==
  \/ IndexMount(FALSE)
  \/ IndexClickNearby /\ index.userLocation = None /\ ~index.geolocation

\* C21: a step in which the position request is denied, or getUserLocation finds
\* geolocation unsupported, leaves locationMode "all"; in "all" mode, and in "nearby"
\* mode while no user location has been obtained, the page shows every
\* search-matching hospital.
C21_DeniedShowsAll ==
  /\ []((/\ ~index.loading
          /\ \/ index.locationMode = "all"
             \/ index.locationMode = "nearby" /\ index.userLocation = None)
         => DisplayedSet = SearchMatching)
  /\ [][(IndexLocationDenied \/ LocationUnsupported)
          => index'.locationMode = "all"]_vars

\* C21 witness: geolocation is supported, every request made was denied, and the
\* page in all mode shows hospitals far away and without coordinates.
C21_Witness ==
  /\ index.pc = "mounted" /\ ~index.loading
  /\ index.geolocation /\ index.geoPending = 0 /\ index.userLocation = None
  /\ index.locationMode = "all"
  /\ Len(Displayed) >= 3 /\ DisplayedSet = SearchMatching

\* C22: a geolocation callback, success or error, that runs while the mode is one
\* the mode buttons set ("pincode" or "all") leaves locationMode as it is.
C22_CallbackKeepsSelectedMode ==
  [][(index'.geoPending < index.geoPending /\ index.locationMode \in {"pincode", "all"})
       => index'.locationMode = index.locationMode]_vars


\* The screen a check-in page shows.
Screen(ps) ==
  IF ps.loading THEN "Processing your check-in..."
  ELSE IF ~ps.success THEN "Unable to Check In"
  ELSE "Check-In Successful"

\* C23: a check-in page load sends at most one waiting_lists update; a step in
\* which its hospital lookup or its waiting-list lookup fails sends none, leaves the
\* table as it is and ends the page load; a step in which its update fails leaves
\* the page on the failure screen.
C23_AtMostOneUpdate ==
  /\ [](\A p \in Pages : page[p].updates <= 1)
  /\ [][\A p \in Pages :
          /\ (page[p].pc \in {"hospital", "waiting"} /\ page'[p].pc = "done")
               => /\ page'[p].updates = 0
                  /\ waiting_lists' = waiting_lists
          /\ PageUpdate(p, FALSE)
               => /\ Screen(page'[p]) = "Unable to Check In"
                  /\ waiting_lists' = waiting_lists]_vars

\* C23 witness: one page load ended by a failed lookup, another by a failed update,
\* with the stored count at 0.
C23_Witness ==
  /\ \E p \in Pages : page[p].pc = "done" /\ page[p].updates = 0
  /\ \E p \in Pages : page[p].pc = "done" /\ page[p].updates = 1 /\ ~page[p].success
  /\ \E w \in waiting_lists : w.waiting_count = 0


\* C24: every check-in page that was loaded, with or without a hospitalId, in the
\* end shows the success screen or the "Unable to Check In" screen instead of
\* "Processing your check-in...".
C24_PageLeavesProcessing ==
  \A p \in Pages :
    (page[p].pc # "idle") ~> (Screen(page[p]) # "Processing your check-in...")


\* C25: a step that puts a check-in page on the success screen showing position n
\* leaves an entry of that hospital stored with the count n.
C25_SuccessMeansStored ==
  [][\A p \in Pages :
       (page'[p].success /\ ~page[p].success)
         => \E w \in waiting_lists' : /\ w.hospital_id = page'[p].hospitalId
                                      /\ w.waiting_count = page'[p].newCount]_vars


\* The user a request of dashboard d is made for, when one is under way or can be
\* made from the page.
RequestsFor(d) ==
  (IF dash[d].pc \in {"fetchHospital", "fetchWaiting"} THEN {dash[d].fetchUser} ELSE {})
  \cup (IF dash[d].isCreating \/ dash[d].hospital # 0 THEN {dash[d].user} ELSE {})

\* C26: a dashboard that finds no session at load, or is told of none later, has
\* navigated to /auth, after which its buttons send nothing; and the dashboard makes
\* no request for a user whose session it has not observed: none at all before the
\* first session.
C26_NoSessionNoRequest ==
  /\ [](\A d \in Dashboards :
          /\ RequestsFor(d) \subseteq dash[d].observed
          /\ Anon \notin dash[d].observed
          /\ dash[d].observed = {}
               => /\ dash[d].pc \in {"unloaded", "gone"}
                  /\ dash[d].hospital = 0 /\ dash[d].waitingList = NullWaitingList)
  /\ [][\A d \in Dashboards :
          /\ (DashCheckAuth(d, Anon) \/ DashAuthStateChange(d, Anon)) => dash'[d].navigated
          /\ dash[d].navigated
               => /\ dash'[d].navigated
                  /\ hospitals' = hospitals /\ waiting_lists' = waiting_lists
                  /\ BagCardinality(pending'[d]) <= BagCardinality(pending[d])]_vars

\* C26 witness: a dashboard that had loaded a hospital and its entry was told that
\* the session is gone.
C26_Witness ==
  \E d \in Dashboards :
    /\ dash[d].navigated /\ dash[d].pc = "idle"
    /\ dash[d].hospital # 0 /\ dash[d].waitingList # NullWaitingList


\* C27: a step that completes handleAuth leaves loading false; it navigates to
\* /dashboard if the call was signInWithPassword and returned no error, and leaves
\* the route as it was after a sign-up and after every error.
C27_HandleAuthOutcome ==
  [][\A error \in AuthErrors \cup {""} :
       AuthResponse(error)
         => /\ ~auth'.loading
            /\ IF auth.request = "signIn" /\ error = ""
                 THEN auth'.at = "/dashboard"
                 ELSE auth'.at = auth.at]_vars

\* C27 witness: a handleAuth call has ended with an error on a page still at /auth.
C27_Witness ==
  /\ auth.at = "/auth" /\ ~auth.loading /\ ~auth.checking
  /\ auth.toast.title = "Error" /\ auth.isLogin /\ auth.request = "none"


\* C28: when the response of a successful updateWaitingCount arrives, the dashboard
\* having no other update under way and its own write being the last one made to
\* the table, the local entry equals the stored entry in waiting_count and in
\* last_updated.
C28_LocalEqualsStored ==
  [][\A d \in Dashboards : \A r \in BagToSet(pending[d]) :
       (/\ DashUpdateDone(d, r)
        /\ BagCardinality(pending[d]) = 1
        /\ lastActor = dash[d].user)
         => \A w \in waiting_lists' :
              w.id = dash'[d].waitingList.id
                => /\ w.waiting_count = dash'[d].waitingList.waiting_count
                   /\ w.last_updated = dash'[d].waitingList.last_updated]_vars

====
